---- MODULE Spec2Model ----
(***************************************************************************)
(* Model of the data-warehouse loader (python/load_data.py) and of the     *)
(* analytics runner (python/analytics.py).                                 *)
(*                                                                         *)
(* Money is held in whole cents.  The loader computes the monetary fields  *)
(* in IEEE-754 double precision (Python float / numpy float64), so the     *)
(* first part of the module is an exact model of the double operations the *)
(* loader uses, built on arbitrary-precision naturals.                     *)
(***************************************************************************)
EXTENDS Integers, Sequences, FiniteSets

(***************************************************************************)
(* Arbitrary-precision naturals: little-endian sequences of 15-bit limbs.  *)
(***************************************************************************)
LimbBits == 15
Base == 32768

RECURSIVE Pow2(_)
Pow2(n) == IF n = 0 THEN 1 ELSE 2 * Pow2(n - 1)

Min(a, b) == IF a < b THEN a ELSE b

Limb0(a) == IF a = <<>> THEN 0 ELSE Head(a)
Rest0(a) == IF a = <<>> THEN <<>> ELSE Tail(a)

RECURSIVE Trim(_)
Trim(a) ==
    IF a = <<>> THEN <<>>
    ELSE IF a[Len(a)] = 0 THEN Trim(SubSeq(a, 1, Len(a) - 1))
    ELSE a

BigIsZero(a) == Trim(a) = <<>>

RECURSIVE BigOfInt(_)
BigOfInt(k) == IF k = 0 THEN <<>> ELSE <<k % Base>> \o BigOfInt(k \div Base)

RECURSIVE BigToInt(_)
BigToInt(a) == IF a = <<>> THEN 0 ELSE Head(a) + Base * BigToInt(Tail(a))

RECURSIVE BigAddC(_, _, _)
BigAddC(a, b, c) ==
    IF a = <<>> /\ b = <<>> THEN (IF c = 0 THEN <<>> ELSE <<c>>)
    ELSE LET x == Limb0(a) + Limb0(b) + c
         IN  <<x % Base>> \o BigAddC(Rest0(a), Rest0(b), x \div Base)

BigAdd(a, b) == BigAddC(a, b, 0)

\* a - b for a >= b
RECURSIVE BigSubB(_, _, _)
BigSubB(a, b, borrow) ==
    IF a = <<>> THEN <<>>
    ELSE LET x == Head(a) - Limb0(b) - borrow
         IN  IF x < 0
             THEN <<x + Base>> \o BigSubB(Tail(a), Rest0(b), 1)
             ELSE <<x>> \o BigSubB(Tail(a), Rest0(b), 0)

BigSub(a, b) == Trim(BigSubB(a, b, 0))

RECURSIVE BigMulSmallC(_, _, _)
BigMulSmallC(a, s, c) ==
    IF a = <<>> THEN (IF c = 0 THEN <<>> ELSE <<c>>)
    ELSE LET x == Head(a) * s + c
         IN  <<x % Base>> \o BigMulSmallC(Tail(a), s, x \div Base)

\* a * s for 0 <= s < Base
BigMulSmall(a, s) == Trim(BigMulSmallC(a, s, 0))

RECURSIVE BigMul(_, _)
BigMul(a, b) ==
    IF b = <<>> THEN <<>>
    ELSE Trim(BigAdd(BigMulSmall(a, Head(b)), <<0>> \o BigMul(a, Tail(b))))

\* quotient and remainder of a by s, 0 < s < Base
RECURSIVE BigDivSmall(_, _)
BigDivSmall(a, s) ==
    IF a = <<>> THEN [q |-> <<>>, r |-> 0]
    ELSE LET hi == BigDivSmall(Tail(a), s)
             x  == hi.r * Base + Head(a)
         IN  [q |-> <<x \div s>> \o hi.q, r |-> x % s]

RECURSIVE BigLessT(_, _)
BigLessT(a, b) ==
    IF Len(a) # Len(b) THEN Len(a) < Len(b)
    ELSE IF a = <<>> THEN FALSE
    ELSE IF a[Len(a)] # b[Len(b)] THEN a[Len(a)] < b[Len(b)]
    ELSE BigLessT(SubSeq(a, 1, Len(a) - 1), SubSeq(b, 1, Len(b) - 1))

BigLess(a, b) == BigLessT(Trim(a), Trim(b))
BigEq(a, b) == Trim(a) = Trim(b)

RECURSIVE IntBitLen(_)
IntBitLen(k) == IF k = 0 THEN 0 ELSE 1 + IntBitLen(k \div 2)

BigBitLen(a) ==
    LET t == Trim(a)
    IN  IF t = <<>> THEN 0 ELSE (Len(t) - 1) * LimbBits + IntBitLen(t[Len(t)])

RECURSIVE Zeros(_)
Zeros(n) == IF n = 0 THEN <<>> ELSE <<0>> \o Zeros(n - 1)

BigShiftLeft(a, n) ==
    IF BigIsZero(a) THEN <<>>
    ELSE Zeros(n \div LimbBits) \o BigMulSmall(a, Pow2(n % LimbBits))

BigShiftRight(a, n) ==
    LET t == Trim(a)
        k == n \div LimbBits
    IN  IF k >= Len(t) THEN <<>>
        ELSE Trim(BigDivSmall(SubSeq(t, k + 1, Len(t)), Pow2(n % LimbBits)).q)

BigIsOdd(a) == Limb0(a) % 2 = 1

\* a / 2^n rounded to the nearest integer, ties to even; sticky says that the
\* exact value lies strictly above a (by less than one unit of a).
BigRoundShift(a, n, sticky) ==
    IF n = 0 THEN Trim(a)
    ELSE LET q    == BigShiftRight(a, n)
             r    == BigSub(a, BigShiftLeft(q, n))
             half == BigShiftLeft(<<1>>, n - 1)
             up   == \/ BigLess(half, r)
                     \/ BigEq(half, r) /\ (sticky \/ BigIsOdd(q))
         IN  IF up THEN Trim(BigAdd(q, <<1>>)) ELSE q

(***************************************************************************)
(* IEEE-754 binary64 values >= 0 in the normal range: m * 2^e with m a     *)
(* 53-bit natural (or zero).  Each operation is a function, so that its    *)
(* operands are values when it is applied.                                 *)
(***************************************************************************)
MantBits == 53

FZero == [m |-> <<>>, e |-> 0]

Bigs == Seq(0 .. (Base - 1))

Doubles == [m : Bigs, e : Int]

\* the double nearest to N * 2^e (+ a sticky fraction), ties to even
FRoundFn[N \in Bigs, e \in Int, sticky \in BOOLEAN] ==
    LET L == BigBitLen(N)
    IN  IF L = 0 THEN FZero
        ELSE IF L <= MantBits
             THEN [m |-> BigShiftLeft(N, MantBits - L), e |-> e - (MantBits - L)]
        ELSE LET m == BigRoundShift(N, L - MantBits, sticky)
             IN  IF BigBitLen(m) > MantBits
                 THEN [m |-> BigShiftRight(m, 1), e |-> e + (L - MantBits) + 1]
                 ELSE [m |-> m, e |-> e + (L - MantBits)]

FRound(N, e, sticky) == FRoundFn[N, e, sticky]

\* x * y
FMulFn[x \in Doubles, y \in Doubles] == FRound(BigMul(x.m, y.m), x.e + y.e, FALSE)

FMul(x, y) == FMulFn[x, y]

\* x * k for a small integer k (the integer converts exactly)
FMulIntFn[x \in Doubles, k \in Nat] == FRound(BigMulSmall(x.m, k), x.e, FALSE)

FMulInt(x, k) == FMulIntFn[x, k]

\* x - y for x >= y
FSubFn[x \in Doubles, y \in Doubles] ==
    IF BigIsZero(y.m) THEN x
    ELSE LET e0 == Min(x.e, y.e)
         IN  FRound(BigSub(BigShiftLeft(x.m, x.e - e0), BigShiftLeft(y.m, y.e - e0)),
                    e0, FALSE)

FSub(x, y) == FSubFn[x, y]

\* the double nearest to k / 100, k a natural
FDivInt100Fn[k \in Nat] ==
    LET d == BigDivSmall(BigShiftLeft(BigOfInt(k), 64), 100)
    IN  FRound(Trim(d.q), -64, d.r # 0)

FDivInt100(k) == FDivInt100Fn[k]

\* rint: nearest integer, ties to even, of a double below 2^31
FRintFn[x \in Doubles] ==
    IF BigIsZero(x.m) THEN 0
    ELSE IF x.e >= 0 THEN BigToInt(BigShiftLeft(x.m, x.e))
    ELSE BigToInt(BigRoundShift(x.m, 0 - x.e, FALSE))

FRint(x) == FRintFn[x]

(***************************************************************************)
(* numpy's round(x, 2) on a float64: rint(x * 100.0) / 100.0.  The result  *)
(* is the double nearest to a whole number of cents; np_round_cents is     *)
(* that number of cents and np_round the double itself.                    *)
(***************************************************************************)
np_round_cents(x) == FRint(FMulInt(x, 100))
np_round(x) == FDivInt100(np_round_cents(x))

\* float(unit_price) of a NUMERIC price of p cents
float_of_price(p) == FDivInt100(p)

\* the discount levels of np.random.choice([0, 0.05, 0.10, 0.15], ...), in percent
DiscountPcts == <<0, 5, 10, 15>>

\* the float64 literal of a discount level
discount_literal(pct) == FDivInt100(pct)

(***************************************************************************)
(* Bounds of the model.                                                    *)
(***************************************************************************)
\* rows per batch; the loader is parametric in it (batch_size = 5000 in the
\* source), the model runs it at a small value
batch_size == 3
\* largest num_transactions passed to generate_and_load_transactions
MaxTransactions == 7
\* largest number of rows in a dimension CSV file
MaxDimRows == 2
\* number of seeds of the random generator
MaxSeed == 3
\* width of the range of unit prices (in cents) of the amount computation
MaxPriceSpan == 120

\* the lowest price generate_products writes: cost >= 10.00, markup >= 1.5
MinPriceCents == 1500

\* prices of the rows of products.csv in the loader runs
SamplePrices == {MinPriceCents, MinPriceCents + 499}

\* prices of the amount computation
CalcPrices == MinPriceCents .. (MinPriceCents + MaxPriceSpan)

Quantities == 1 .. 5

(***************************************************************************)
(* One fact row, as the loader computes it (load_data.py 99-106).          *)
(* unit_price, total_amount and discount_amount are the cents of the       *)
(* doubles the loader stores.                                              *)
(***************************************************************************)
total_before_discount(unit_price, quantity) ==
    FMulInt(float_of_price(unit_price), quantity)

discount_amount_of(unit_price, quantity, pct) ==
    np_round(FMul(total_before_discount(unit_price, quantity), discount_literal(pct)))

\* the total as one rounding of total_before_discount * (1 - discount_pct)
total_amount_single(unit_price, quantity, pct) ==
    np_round(FMul(total_before_discount(unit_price, quantity),
                  FSub(FDivInt100(100), discount_literal(pct))))

total_amount_of(unit_price, quantity, pct) ==
    np_round(FSub(total_before_discount(unit_price, quantity),
                  discount_amount_of(unit_price, quantity, pct)))

\* a double that is the nearest to a whole number of cents, as cents
cents_of(x) == np_round_cents(x)

MakeTransaction(customer_id, product_id, date_id, unit_price, quantity, pct) ==
    [customer_id     |-> customer_id,
     product_id      |-> product_id,
     date_id         |-> date_id,
     quantity        |-> quantity,
     unit_price      |-> cents_of(float_of_price(unit_price)),
     total_amount    |-> cents_of(total_amount_of(unit_price, quantity, pct)),
     discount_amount |-> cents_of(discount_amount_of(unit_price, quantity, pct))]


(***************************************************************************)
(* numpy's global random generator: a deterministic stream from a seed     *)
(* taken when the process starts.  The model replaces the Mersenne Twister *)
(* by a small multiplicative generator; every draw reads the state and     *)
(* advances it.                                                            *)
(***************************************************************************)
np_random_advance(r) == (r * 17) % 61

\* a choice that returns the sampled position instead of the element
np_random_choice_position(a, r) == r % Len(a)

\* np.random.choice(a) for a non-empty sequence a, in generator state r
np_random_choice(a, r) == a[(r % Len(a)) + 1]

\* np.random.randint(1, 6) in generator state r
np_random_randint(r) == 1 + (r % 5)

(***************************************************************************)
(* State.                                                                  *)
(***************************************************************************)
VARIABLES
    pc,                 \* position of the running program
    fn,                 \* the DataLoader method whose connection block is open
    exc,                \* an exception is propagating ("" when none)
    db,                 \* the store: committed rows of the four tables
    tx,                 \* rows inserted on the open connection, not committed
    csv,                \* rows of each dimension file, as pd.read_csv returned them
    df,                 \* rows of the dimension file not yet inserted
    dim,                \* index in DimOrder of the dimension being loaded
    num_transactions,
    customer_ids,
    product_ids,
    date_ids,
    batch,
    batch_end,
    i,
    cur,                \* customer_id, product_id, date_id, unit_price of row i
    batch_transactions,
    rng,                \* state of numpy's random generator
    draws,              \* values drawn from it by generate_and_load_transactions
    price_lookups,      \* SELECT price statements executed
    n_executemany,      \* bulk inserts executed
    n_commit,           \* conn.commit() calls of the batch loop that succeeded
    generated,          \* every fact row built so far with its discount_pct, in order
    counts,             \* what verify_data_load printed
    error_printed,      \* main's except branch ran
    reports_attempted,  \* analytics: reports started, in order
    reports_failed      \* analytics: reports that raised

vars == <<pc, fn, exc, db, tx, csv, df, dim, num_transactions, customer_ids, product_ids,
          date_ids, batch, batch_end, i, cur, batch_transactions, rng, draws,
          price_lookups, n_executemany, n_commit, generated, counts, error_printed,
          reports_attempted, reports_failed>>

conn_vars == <<db, tx>>
dim_vars == <<csv, df, dim>>
gen_vars == <<num_transactions, customer_ids, product_ids, date_ids, batch, batch_end,
              i, cur, batch_transactions, rng, draws, price_lookups, n_executemany,
              n_commit, generated>>
out_vars == <<counts, error_printed>>
analytics_vars == <<reports_attempted, reports_failed>>

DimOrder == <<"date_dimension", "customers", "products">>

Dimensions == {"date_dimension", "customers", "products"}

Tables == Dimensions \cup {"sales_transactions"}

EmptyTables == [t \in Tables |-> <<>>]

NoRow == [customer_id |-> 0, product_id |-> 0, date_id |-> 0, unit_price |-> 0]

Reports == <<"sales_by_month", "top_customers", "product_performance",
             "sales_by_category", "customer_segment_analysis",
             "weekend_vs_weekday_sales">>

Init ==
    /\ pc = "cli"
    /\ fn = ""
    /\ exc = ""
    /\ db = EmptyTables
    /\ tx = EmptyTables
    /\ csv = [t \in Dimensions |-> <<>>]
    /\ df = <<>>
    /\ dim = 0
    /\ num_transactions = 0
    /\ customer_ids = <<>>
    /\ product_ids = <<>>
    /\ date_ids = <<>>
    /\ batch = 0
    /\ batch_end = 0
    /\ i = 0
    /\ cur = NoRow
    /\ batch_transactions = <<>>
    /\ rng \in 1 .. MaxSeed
    /\ draws = 0
    /\ price_lookups = 0
    /\ n_executemany = 0
    /\ n_commit = 0
    /\ generated = <<>>
    /\ counts = [t \in Tables |-> -1]
    /\ error_printed = FALSE
    /\ reports_attempted = <<>>
    /\ reports_failed = <<>>

(***************************************************************************)
(* The store, as one connection sees it.                                   *)
(***************************************************************************)
\* rows of table t visible on the open connection
Visible(t) == db[t] \o tx[t]

\* the surrogate key the store's sequence gives the next row of table t
NextKey(t) == Len(Visible(t)) + 1

\* cursor.execute / executemany of INSERT statements: the rows join the
\* connection's open transaction
Inserted(t, rows) == [tx EXCEPT ![t] = @ \o rows]

\* the store once the open transaction is committed
Committed == [t \in Tables |-> db[t] \o tx[t]]

\* a commit that is left out: the rows stay in the open transaction
conn_commit_missing == [db |-> db, tx |-> tx]

\* conn.commit(): the store and the open transaction after it
conn_commit == [db |-> Committed, tx |-> EmptyTables]

\* the row of a dimension table for a row of its file
DimRow(t, row) ==
    IF t = "date_dimension" THEN [date_id |-> NextKey(t)]
    ELSE IF t = "customers" THEN [customer_id |-> NextKey(t)]
    ELSE [product_id |-> NextKey(t), price |-> row]

\* the rows a dimension file can hold: n rows; a row of products.csv is its price
FileRows(t) ==
    UNION {[1 .. n -> (IF t = "products" THEN SamplePrices ELSE {0})] : n \in 0 .. MaxDimRows}

(***************************************************************************)
(* An exception inside a connection block, and the block's exit            *)
(* (psycopg2: commit when the block ends normally, rollback when it ends   *)
(* by an exception).                                                       *)
(***************************************************************************)
\* an exception that is swallowed inside the block: the block ends normally
RaiseSwallowed(what) ==
    /\ exc' = ""
    /\ pc' = "conn_exit"

Raise(what) ==
    /\ exc' = what
    /\ pc' = "conn_exit"

\* the function main calls after f, "" after the last
NextCall(f) ==
    IF f = "load_dimension_tables" THEN "generate_and_load_transactions"
    ELSE IF f = "generate_and_load_transactions" THEN "verify_data_load"
    ELSE ""

\* a block exit that commits whatever ended the block
ExitCommitsAlways(e) == TRUE

\* the block's exit commits when no exception ended it, and rolls back otherwise
ExitCommits(e) == e = ""

ConnectionExit ==
    /\ pc = "conn_exit"
    /\ IF ExitCommits(exc)
       THEN /\ db' = Committed
            /\ tx' = EmptyTables
            /\ pc' = IF NextCall(fn) = "" THEN "success" ELSE "call"
            /\ fn' = IF NextCall(fn) = "" THEN fn ELSE NextCall(fn)
       ELSE /\ tx' = EmptyTables
            /\ pc' = "except"
            /\ UNCHANGED <<db, fn>>
    /\ UNCHANGED <<exc, dim_vars, gen_vars, out_vars, analytics_vars>>


(***************************************************************************)
(* load_data.main: the three calls, in one try block.                      *)
(***************************************************************************)
MainStart ==
    /\ pc = "cli"
    /\ pc' = "call"
    /\ fn' = "load_dimension_tables"
    /\ UNCHANGED <<exc, conn_vars, dim_vars, gen_vars, out_vars, analytics_vars>>

\* psycopg2.connect raises: no connection block is entered
GetConnectionFails ==
    /\ pc = "call"
    /\ exc' = "connect"
    /\ pc' = "except"
    /\ UNCHANGED <<fn, conn_vars, dim_vars, gen_vars, out_vars, analytics_vars>>

MainExcept ==
    /\ pc = "except"
    /\ error_printed' = TRUE
    /\ pc' = "failed"
    /\ UNCHANGED <<fn, exc, conn_vars, dim_vars, gen_vars, counts, analytics_vars>>

(***************************************************************************)
(* DataLoader.load_dimension_tables                                        *)
(***************************************************************************)
CallLoadDimensionTables ==
    /\ pc = "call"
    /\ fn = "load_dimension_tables"
    /\ dim' = 1
    /\ pc' = "read_csv"
    /\ UNCHANGED <<fn, exc, conn_vars, csv, df, gen_vars, out_vars, analytics_vars>>

ReadCsv ==
    /\ pc = "read_csv"
    /\ \/ \E rows \in FileRows(DimOrder[dim]) :
            /\ df' = rows
            /\ csv' = [csv EXCEPT ![DimOrder[dim]] = rows]
            /\ pc' = "insert_rows"
            /\ exc' = exc
       \/ /\ Raise("read_csv")
          /\ UNCHANGED <<csv, df>>
    /\ UNCHANGED <<fn, conn_vars, dim, gen_vars, out_vars, analytics_vars>>

InsertDimRow ==
    /\ pc = "insert_rows"
    /\ df # <<>>
    /\ \/ /\ tx' = Inserted(DimOrder[dim], <<DimRow(DimOrder[dim], Head(df))>>)
          /\ df' = Tail(df)
          /\ UNCHANGED <<pc, exc>>
       \/ /\ Raise("insert")
          /\ UNCHANGED <<tx, df>>
    /\ UNCHANGED <<fn, db, csv, dim, gen_vars, out_vars, analytics_vars>>

DimensionLoaded ==
    /\ pc = "insert_rows"
    /\ df = <<>>
    /\ IF dim < Len(DimOrder)
       THEN /\ dim' = dim + 1
            /\ pc' = "read_csv"
       ELSE /\ dim' = dim
            /\ pc' = "dim_commit"
    /\ UNCHANGED <<fn, exc, conn_vars, csv, df, gen_vars, out_vars, analytics_vars>>

DimCommit ==
    /\ pc = "dim_commit"
    /\ \/ /\ db' = conn_commit.db
          /\ tx' = conn_commit.tx
          /\ pc' = "conn_exit"
          /\ exc' = exc
       \/ /\ Raise("commit")
          /\ UNCHANGED <<db, tx>>
    /\ UNCHANGED <<fn, dim_vars, gen_vars, out_vars, analytics_vars>>

(***************************************************************************)
(* DataLoader.generate_and_load_transactions(num_transactions)             *)
(***************************************************************************)
Column(rows, f) == [k \in 1 .. Len(rows) |-> rows[k][f]]

CallGenerateAndLoadTransactions ==
    /\ pc = "call"
    /\ fn = "generate_and_load_transactions"
    /\ \E n \in 0 .. MaxTransactions : num_transactions' = n
    /\ pc' = "get_ids"
    /\ UNCHANGED <<fn, exc, conn_vars, dim_vars, customer_ids, product_ids, date_ids,
                   batch, batch_end, i, cur, batch_transactions, rng, draws,
                   price_lookups, n_executemany, n_commit, generated, out_vars,
                   analytics_vars>>

GetDimensionIds ==
    /\ pc = "get_ids"
    /\ \/ /\ customer_ids' = Column(Visible("customers"), "customer_id")
          /\ product_ids' = Column(Visible("products"), "product_id")
          /\ date_ids' = Column(Visible("date_dimension"), "date_id")
          /\ batch' = 0
          /\ pc' = "batch_loop"
          /\ exc' = exc
       \/ /\ Raise("select_ids")
          /\ UNCHANGED <<customer_ids, product_ids, date_ids, batch>>
    /\ UNCHANGED <<fn, conn_vars, dim_vars, num_transactions, batch_end, i, cur,
                   batch_transactions, rng, draws, price_lookups, n_executemany,
                   n_commit, generated, out_vars, analytics_vars>>

\* range(0, num_transactions, batch_size): the test for a value b, and the
\* value after b
\* a range that still yields its stop value
range_has_inclusive(b, n) == b <= n

range_has(b, n) == b < n

\* a step that is one short of the batch size
range_next_short(b) == b + batch_size - 1

range_next(b) == b + batch_size

\* a batch end that is not capped by num_transactions
BatchEndUncapped(b, n) == b + batch_size

\* batch_end = min(batch + batch_size, num_transactions)
BatchEndOf(b, n) == Min(b + batch_size, n)

\* for batch in range(0, num_transactions, batch_size)
BatchLoop ==
    /\ pc = "batch_loop"
    /\ IF range_has(batch, num_transactions)
       THEN /\ batch_end' = BatchEndOf(batch, num_transactions)
            /\ batch_transactions' = <<>>
            /\ i' = batch
            /\ pc' = "row"
       ELSE /\ pc' = "conn_exit"
            /\ UNCHANGED <<batch_end, batch_transactions, i>>
    /\ UNCHANGED <<fn, exc, conn_vars, dim_vars, num_transactions, customer_ids,
                   product_ids, date_ids, batch, cur, rng, draws, price_lookups,
                   n_executemany, n_commit, generated, out_vars, analytics_vars>>

\* the three np.random.choice calls of row i; choice raises on an empty sequence
SampleKeys ==
    /\ pc = "row"
    /\ i < batch_end
    /\ LET r1 == np_random_advance(rng)
           r2 == np_random_advance(r1)
           r3 == np_random_advance(r2)
       IN  IF customer_ids = <<>>
           THEN /\ Raise("choice")
                /\ UNCHANGED <<cur, rng, draws>>
           ELSE IF product_ids = <<>>
           THEN /\ Raise("choice")
                /\ cur' = [NoRow EXCEPT !.customer_id = np_random_choice(customer_ids, rng)]
                /\ rng' = r1
                /\ draws' = draws + 1
           ELSE IF date_ids = <<>>
           THEN /\ Raise("choice")
                /\ cur' = [NoRow EXCEPT !.customer_id = np_random_choice(customer_ids, rng),
                                        !.product_id = np_random_choice(product_ids, r1)]
                /\ rng' = r2
                /\ draws' = draws + 2
           ELSE /\ cur' = [NoRow EXCEPT !.customer_id = np_random_choice(customer_ids, rng),
                                        !.product_id = np_random_choice(product_ids, r1),
                                        !.date_id = np_random_choice(date_ids, r2)]
                /\ rng' = r3
                /\ draws' = draws + 3
                /\ pc' = "price"
                /\ exc' = exc
    /\ UNCHANGED <<fn, conn_vars, dim_vars, num_transactions, customer_ids, product_ids,
                   date_ids, batch, batch_end, i, batch_transactions, price_lookups,
                   n_executemany, n_commit, generated, out_vars, analytics_vars>>

\* SELECT price FROM products WHERE product_id = %s; fetchone()[0], which
\* raises when no row has that key
GetProductPrice ==
    /\ pc = "price"
    /\ price_lookups' = price_lookups + 1
    /\ LET found == {k \in 1 .. Len(Visible("products")) :
                        Visible("products")[k].product_id = cur.product_id}
       IN  \/ /\ found # {}
              /\ cur' = [cur EXCEPT !.unit_price =
                            Visible("products")[CHOOSE k \in found : TRUE].price]
              /\ pc' = "compute"
              /\ exc' = exc
           \/ /\ found = {}
              /\ Raise("fetchone")
              /\ cur' = cur
           \/ /\ Raise("select_price")
              /\ cur' = cur
    /\ UNCHANGED <<fn, conn_vars, dim_vars, num_transactions, customer_ids, product_ids,
                   date_ids, batch, batch_end, i, batch_transactions, rng, draws,
                   n_executemany, n_commit, generated, out_vars, analytics_vars>>

\* quantity, discount_pct, the amounts, and batch_transactions.append
AppendTransaction ==
    /\ pc = "compute"
    /\ LET r1  == np_random_advance(rng)
           row == MakeTransaction(cur.customer_id, cur.product_id, cur.date_id,
                                  cur.unit_price, np_random_randint(rng),
                                  np_random_choice(DiscountPcts, r1))
       IN  /\ batch_transactions' = Append(batch_transactions, row)
           /\ generated' = Append(generated,
                   [row |-> row, discount_pct |-> np_random_choice(DiscountPcts, r1)])
           /\ rng' = np_random_advance(r1)
    /\ draws' = draws + 2
    /\ i' = i + 1
    /\ pc' = "row"
    /\ UNCHANGED <<fn, exc, conn_vars, dim_vars, num_transactions, customer_ids,
                   product_ids, date_ids, batch, batch_end, cur, price_lookups,
                   n_executemany, n_commit, out_vars, analytics_vars>>

\* cursor.executemany(INSERT ..., batch_transactions); when a row is refused the
\* rows before it stay in the open transaction
ExecuteMany ==
    /\ pc = "row"
    /\ i = batch_end
    /\ n_executemany' = n_executemany + 1
    /\ \/ /\ tx' = Inserted("sales_transactions", batch_transactions)
          /\ pc' = "commit"
          /\ exc' = exc
       \/ \E k \in 0 .. (Len(batch_transactions) - 1) :
            /\ tx' = Inserted("sales_transactions", SubSeq(batch_transactions, 1, k))
            /\ Raise("insert")
    /\ UNCHANGED <<fn, db, dim_vars, num_transactions, customer_ids, product_ids,
                   date_ids, batch, batch_end, i, cur, batch_transactions, rng, draws,
                   price_lookups, n_commit, generated, out_vars, analytics_vars>>

\* conn.commit() of the batch, then the loop takes the next value of the range
BatchCommit ==
    /\ pc = "commit"
    /\ \/ /\ db' = conn_commit.db
          /\ tx' = conn_commit.tx
          /\ n_commit' = n_commit + 1
          /\ batch' = range_next(batch)
          /\ pc' = "batch_loop"
          /\ exc' = exc
       \/ /\ Raise("commit")
          /\ UNCHANGED <<db, tx, n_commit, batch>>
    /\ UNCHANGED <<fn, dim_vars, num_transactions, customer_ids, product_ids, date_ids,
                   batch_end, i, cur, batch_transactions, rng, draws, price_lookups,
                   n_executemany, generated, out_vars, analytics_vars>>

(***************************************************************************)
(* DataLoader.verify_data_load                                             *)
(***************************************************************************)
CallVerifyDataLoad ==
    /\ pc = "call"
    /\ fn = "verify_data_load"
    /\ pc' = "verify"
    /\ UNCHANGED <<fn, exc, conn_vars, dim_vars, gen_vars, out_vars, analytics_vars>>

VerifyDataLoad ==
    /\ pc = "verify"
    /\ \/ /\ counts' = [t \in Tables |-> Len(Visible(t))]
          /\ pc' = "conn_exit"
          /\ exc' = exc
       \/ /\ Raise("select_counts")
          /\ counts' = counts
    /\ UNCHANGED <<fn, conn_vars, dim_vars, gen_vars, error_printed, analytics_vars>>

(***************************************************************************)
(* analytics.main: the six reports, in one try block.                      *)
(***************************************************************************)
AnalyticsStart ==
    /\ pc \in {"cli", "success"}
    /\ pc' = "report"
    /\ UNCHANGED <<fn, exc, conn_vars, dim_vars, gen_vars, out_vars, analytics_vars>>

\* one report method: pd.read_sql over a new connection, then the print; when
\* it raises, control leaves the try block of main
RunReport(r) ==
    /\ pc = "report"
    /\ r = Len(reports_attempted) + 1
    /\ reports_attempted' = Append(reports_attempted, Reports[r])
    /\ \/ /\ pc' = IF r = Len(Reports) THEN "analytics_success" ELSE "report"
          /\ reports_failed' = reports_failed
       \/ /\ reports_failed' = Append(reports_failed, Reports[r])
          /\ pc' = "analytics_except"
    /\ UNCHANGED <<fn, exc, conn_vars, dim_vars, gen_vars, out_vars>>

AnalyticsExcept ==
    /\ pc = "analytics_except"
    /\ pc' = "analytics_failed"
    /\ UNCHANGED <<fn, exc, conn_vars, dim_vars, gen_vars, out_vars, analytics_vars>>

Next ==
    \/ MainStart
    \/ GetConnectionFails
    \/ MainExcept
    \/ ConnectionExit
    \/ CallLoadDimensionTables
    \/ ReadCsv
    \/ InsertDimRow
    \/ DimensionLoaded
    \/ DimCommit
    \/ CallGenerateAndLoadTransactions
    \/ GetDimensionIds
    \/ BatchLoop
    \/ SampleKeys
    \/ GetProductPrice
    \/ AppendTransaction
    \/ ExecuteMany
    \/ BatchCommit
    \/ CallVerifyDataLoad
    \/ VerifyDataLoad
    \/ AnalyticsStart
    \/ \E r \in 1 .. Len(Reports) : RunReport(r)
    \/ AnalyticsExcept

Spec == Init /\ [][Next]_vars


(***************************************************************************)
(* The amount computation alone: one row about to be computed, for every   *)
(* price of CalcPrices and every state of the random generator (which      *)
(* gives every quantity and every discount level).                         *)
(***************************************************************************)
RngStates == 1 .. 60

InitCalc ==
    /\ pc = "compute"
    /\ fn = "generate_and_load_transactions"
    /\ exc = ""
    /\ \E p \in CalcPrices :
         /\ db = [EmptyTables EXCEPT !["date_dimension"] = <<[date_id |-> 1]>>,
                                     !["customers"] = <<[customer_id |-> 1]>>,
                                     !["products"] = <<[product_id |-> 1, price |-> p]>>]
         /\ csv = [t \in Dimensions |-> IF t = "products" THEN <<p>> ELSE <<0>>]
         /\ cur = [customer_id |-> 1, product_id |-> 1, date_id |-> 1, unit_price |-> p]
    /\ tx = EmptyTables
    /\ df = <<>>
    /\ dim = Len(DimOrder)
    /\ num_transactions = 1
    /\ customer_ids = <<1>>
    /\ product_ids = <<1>>
    /\ date_ids = <<1>>
    /\ batch = 0
    /\ batch_end = 1
    /\ i = 0
    /\ batch_transactions = <<>>
    /\ rng \in RngStates
    /\ draws = 3
    /\ price_lookups = 1
    /\ n_executemany = 0
    /\ n_commit = 0
    /\ generated = <<>>
    /\ counts = [t \in Tables |-> -1]
    /\ error_printed = FALSE
    /\ reports_attempted = <<>>
    /\ reports_failed = <<>>

NextCalc == AppendTransaction

SpecCalc == InitCalc /\ [][NextCalc]_vars


(***************************************************************************)
(* Properties.                                                             *)
(***************************************************************************)
Range(q) == {q[k] : k \in 1 .. Len(q)}

Gen == "generate_and_load_transactions"

Sales == "sales_transactions"

\* rows of generate_and_load_transactions built so far
GeneratedRows == Column(generated, "row")

\* the run of load_data.main is over, by an exception
RunFailed == pc \in {"except", "failed"}

\* generate_and_load_transactions returned normally
GenCompleted == fn = "verify_data_load"

\* generate_and_load_transactions has read the three key sets
KeysRead ==
    \/ GenCompleted
    \/ fn = Gen /\ pc \notin {"call", "get_ids"} /\ exc \notin {"connect", "select_ids"}

\* generate_and_load_transactions failed while generating or inserting a batch
GenFailedInBatch ==
    /\ fn = Gen
    /\ RunFailed
    /\ exc \in {"choice", "select_price", "fetchone", "insert", "commit"}

\* load_dimension_tables is over
DimEnded == fn # "" /\ (fn # "load_dimension_tables" \/ RunFailed)

DimFailed == fn = "load_dimension_tables" /\ RunFailed

\* every row of the file of dimension t is committed in its table
DimFullyLoaded(t) ==
    /\ Len(db[t]) = Len(csv[t])
    /\ t = "products" => Column(db[t], "price") = csv[t]

\* num / den rounded to the nearest integer, ties to even (naturals)
HalfEven(num, den) ==
    LET q == num \div den
        r == num % den
    IN  IF 2 * r > den \/ (2 * r = den /\ q % 2 = 1) THEN q + 1 ELSE q

Abs(x) == IF x < 0 THEN 0 - x ELSE x

\* C1: when generating or inserting batch k fails (k = n_commit + 1), after the
\* run has ended the fact table holds exactly the rows of batches 1..k-1, no row
\* of batch k or later, and no batch after k was started.
TheoremC1 ==
    GenFailedInBatch =>
        /\ Len(GeneratedRows) >= n_commit * batch_size
        /\ db[Sales] = SubSeq(GeneratedRows, 1, n_commit * batch_size)
        /\ tx[Sales] = <<>>
        /\ batch = n_commit * batch_size
        /\ Len(GeneratedRows) <= batch_end
        /\ batch_end <= batch + batch_size
        /\ n_executemany <= n_commit + 1

\* a failure in the second batch, after its rows were built
WitnessC1 ==
    /\ GenFailedInBatch
    /\ pc = "failed"
    /\ exc = "insert"
    /\ n_commit = 1
    /\ Len(GeneratedRows) = 2 * batch_size
    /\ Len(db[Sales]) = batch_size

\* C2: when generate_and_load_transactions(num_transactions) returns normally
\* with non-empty key sets, exactly num_transactions rows are committed, and
\* they are the rows it built.
TheoremC2 ==
    (GenCompleted /\ customer_ids # <<>> /\ product_ids # <<>> /\ date_ids # <<>>) =>
        /\ Len(db[Sales]) = num_transactions
        /\ db[Sales] = GeneratedRows
        /\ tx[Sales] = <<>>

\* a completed run whose size is above the batch size and no multiple of it
WitnessC2 ==
    /\ GenCompleted
    /\ customer_ids # <<>>
    /\ num_transactions > batch_size
    /\ num_transactions % batch_size # 0
    /\ Len(db[Sales]) = num_transactions

\* C3: every fact row, in the batch being built, in the open transaction and in
\* the table, has its three keys among the keys read at the start of the run
\* (which are keys of the dimension tables).
TheoremC3 ==
    \A row \in Range(batch_transactions) \cup Range(tx[Sales]) \cup Range(db[Sales]) :
        /\ row.customer_id \in Range(customer_ids)
        /\ row.product_id \in Range(product_ids)
        /\ row.date_id \in Range(date_ids)
        /\ row.customer_id \in Range(Column(db["customers"], "customer_id"))
        /\ row.product_id \in Range(Column(db["products"], "product_id"))
        /\ row.date_id \in Range(Column(db["date_dimension"], "date_id"))

\* more than one batch committed, with rows of two customers and two products
WitnessC3 ==
    /\ Len(db[Sales]) > batch_size
    /\ \E r1, r2 \in Range(db[Sales]) :
         r1.customer_id # r2.customer_id /\ r1.product_id # r2.product_id

\* C4: once load_dimension_tables is over, each dimension table holds every row
\* of its file or none; when the load failed it holds none and main reports the
\* error.
TheoremC4 ==
    DimEnded =>
        \A t \in Dimensions :
            /\ db[t] = <<>> \/ DimFullyLoaded(t)
            /\ DimFailed => db[t] = <<>>
            /\ (DimFailed /\ pc = "failed") => error_printed

\* the second row of customers.csv was refused after the first was inserted
WitnessC4 ==
    /\ DimFailed
    /\ pc = "failed"
    /\ exc = "insert"
    /\ dim = 2
    /\ Len(csv["customers"]) = 2
    /\ Len(df) = 1
    /\ db["customers"] = <<>>
    /\ error_printed

\* C5 as stated: total_amount is the single half-even rounding of
\* unit_price * quantity * (1 - discount_pct) to the cent.
ClaimC5 ==
    \A g \in Range(generated) :
        g.row.total_amount =
            HalfEven(g.row.unit_price * g.row.quantity * (100 - g.discount_pct), 100)

\* C5 amended: total_amount is unit_price * quantity less the rounded
\* discount_amount, exactly; discount_amount is within half a cent of
\* unit_price * quantity * discount_pct; so total_amount is within one cent of
\* the single rounding.
TheoremC5 ==
    \A g \in Range(generated) :
        LET gross == g.row.unit_price * g.row.quantity
        IN  /\ g.row.total_amount = gross - g.row.discount_amount
            /\ Abs(100 * g.row.discount_amount - gross * g.discount_pct) <= 50
            /\ Abs(g.row.total_amount - HalfEven(gross * (100 - g.discount_pct), 100)) <= 1

\* a row whose total is one cent above the single rounding: 15.05 at 10 percent
WitnessC5 ==
    \E g \in Range(generated) :
        /\ g.row.unit_price = 1505
        /\ g.row.quantity = 1
        /\ g.discount_pct = 10
        /\ g.row.discount_amount = 150
        /\ g.row.total_amount = 1355

\* C6 as stated: when the analytics run is over, all six reports were attempted,
\* whichever of them failed.
ClaimC6 ==
    pc \in {"analytics_success", "analytics_failed"} =>
        Len(reports_attempted) = Len(Reports)

\* C7 as stated: with num_transactions > 0 and an empty key set, the run fails
\* before any key is sampled, any price is looked up or any row is built.
ClaimC7 ==
    (/\ fn = Gen
     /\ KeysRead
     /\ num_transactions > 0
     /\ (customer_ids = <<>> \/ product_ids = <<>> \/ date_ids = <<>>)) =>
        /\ draws = 0
        /\ price_lookups = 0
        /\ generated = <<>>
        /\ Visible(Sales) = <<>>

\* C8: with num_transactions = 0, whatever the key sets, no batch runs: no bulk
\* insert, no batch commit, no draw, the fact table stays empty, and the call
\* goes from the loop to its normal exit without an exception.
TheoremC8 ==
    (KeysRead /\ num_transactions = 0) =>
        /\ n_executemany = 0
        /\ n_commit = 0
        /\ draws = 0
        /\ generated = <<>>
        /\ Visible(Sales) = <<>>
        /\ fn = Gen => (exc = "" /\ pc \in {"batch_loop", "conn_exit"})
        /\ counts[Sales] \in {-1, 0}

\* a run of 0 transactions over empty key sets, verified
WitnessC8 ==
    /\ GenCompleted
    /\ num_transactions = 0
    /\ customer_ids = <<>>
    /\ pc = "success"
    /\ counts[Sales] = 0

\* C9: batches run one after another.  While batch k is generated, batches
\* 1..k-1 are inserted and committed and nothing is pending; its rows go in by
\* one bulk insert, at most batch_size of them and exactly batch_size unless it
\* is the last; at every commit point min(batch_size * k, num_transactions)
\* rows are committed.
TheoremC9 ==
    /\ pc \in {"row", "price", "compute"} =>
        /\ tx[Sales] = <<>>
        /\ Len(db[Sales]) = batch
        /\ batch = n_commit * batch_size
        /\ n_executemany = n_commit
        /\ Len(batch_transactions) = i - batch
        /\ i <= batch_end
        /\ batch_end - batch <= batch_size
    /\ pc = "commit" =>
        /\ tx[Sales] = batch_transactions
        /\ n_executemany = n_commit + 1
        /\ Len(batch_transactions) <= batch_size
        /\ batch_end < num_transactions => Len(batch_transactions) = batch_size
    /\ (fn = Gen /\ pc = "batch_loop") =>
        /\ tx[Sales] = <<>>
        /\ Len(db[Sales]) = Min(batch_size * n_commit, num_transactions)

\* the commit point of the second batch, with a third batch to come
WitnessC9 ==
    /\ fn = Gen
    /\ pc = "batch_loop"
    /\ n_commit = 2
    /\ Len(db[Sales]) = 2 * batch_size
    /\ num_transactions > 2 * batch_size

\* C10: the three dimensions are committed together: in every state either no
\* dimension table holds a row or each holds every row of its file, and a
\* failed load leaves all three empty.
TheoremC10 ==
    /\ (\A t \in Dimensions : db[t] = <<>>) \/ (\A t \in Dimensions : DimFullyLoaded(t))
    /\ DimFailed => \A t \in Dimensions : db[t] = <<>>

\* a row of products.csv was refused after dates and customers were inserted
WitnessC10 ==
    /\ DimFailed
    /\ pc = "failed"
    /\ exc = "insert"
    /\ dim = 3
    /\ Len(csv["date_dimension"]) = 2
    /\ Len(csv["customers"]) = 2
    /\ \A t \in Dimensions : db[t] = <<>>

====
